---------------------------- MODULE Spec2Model ----------------------------
(***************************************************************************)
(* destinepyauth: the service registry, the configuration factory, the    *)
(* RFC 8693 token-exchange helper and the public get_token entry point.   *)
(*                                                                         *)
(* A caller issues one API call at a time (the library is sequential);    *)
(* each action is one complete call, computed by operators translated     *)
(* from the Python source.  `last` holds the observable record of the     *)
(* call that has just ended, `hooks` the exchange hooks the caller holds   *)
(* from earlier load_config calls, `registry` the class-level _REGISTRY.  *)
(*                                                                         *)
(* Python values: str is a TLA+ string, except the text of an HTTP body   *)
(* and of an exception message, which are sequences of symbols so that    *)
(* slicing and concatenation are computed.  None is `None` where a str    *)
(* may stand and `NoneObj` where an object may stand.                     *)
(***************************************************************************)
EXTENDS Integers, Sequences, FiniteSets, TLC

VARIABLES registry, hooks, last

vars == <<registry, hooks, last>>

(*************************** Python values ********************************)
None == "None"

NoneObj == [py |-> "None"]

NoError == "no exception"

\* The empty dict.
EmptyDict == [k \in {} |-> None]

Min(a, b) == IF a < b THEN a ELSE b

\* dict.get(key, default)
dict_get(d, key, default) == IF key \in DOMAIN d THEN d[key] ELSE default

\* text[:n]
Slice(text, n) == SubSeq(text, 1, Min(Len(text), n))

\* Outcome of a call: what it raised or returned, the operations it
\* performed in order (trace) and the HTTP POSTs it issued (posts).
Raise(exc, msg, trace, posts) ==
    [raised |-> exc, msg |-> msg, value |-> NoneObj,
     trace |-> trace, posts |-> posts]

Return(value, trace, posts) ==
    [raised |-> NoError, msg |-> <<>>, value |-> value,
     trace |-> trace, posts |-> posts]

(*************************** services.py **********************************)
_REGISTRY ==
    [cacheb |->
        [scope |-> "openid offline_access",
         defaults |-> [iam_client |-> "edh-public",
                       iam_redirect_uri |-> "https://cacheb.dcms.destine.eu/"]],
     streamer |->
        [scope |-> "openid",
         defaults |-> [iam_client |-> "streaming-fe",
                       iam_redirect_uri |-> "https://streamer.destine.eu/"]],
     insula |->
        [scope |-> "openid",
         defaults |-> [iam_client |-> "insula-public",
                       iam_redirect_uri |-> "https://insula.destine.eu/"]],
     eden |->
        [scope |-> "openid",
         defaults |-> [iam_client |-> "hda-broker-public",
                       iam_redirect_uri |-> "https://broker.eden.destine.eu/"]],
     dea |->
        [scope |-> "openid",
         defaults |-> [iam_client |-> "dea_client",
                       iam_redirect_uri |-> "https://dea.destine.eu/"]],
     highway |->
        [scope |-> "openid",
         defaults |-> [iam_client |-> "highway-public",
                       iam_redirect_uri |-> "https://highway.esa.int/sso/auth/realms/highway/broker/DESP_IAM_PROD/endpoint"],
         token_exchange |->
             [token_url |-> "https://highway.esa.int/sso/auth/realms/highway/protocol/openid-connect/token",
              audience |-> "highway-public",
              subject_issuer |-> "DESP_IAM_PROD",
              client_id |-> "highway-public"]],
     polytope |->
        [scope |-> "openid offline_access",
         defaults |-> [iam_client |-> "polytope-api-public",
                       iam_redirect_uri |-> "https://polytope.lumi.apps.dte.destination-earth.eu/"]],
     hda |->
        [scope |-> "openid",
         defaults |-> [iam_client |-> "dedl-hda",
                       iam_redirect_uri |-> "https://hda.data.destination-earth.eu/stac"],
         token_exchange |->
             [token_url |-> "https://identity.data.destination-earth.eu/auth/realms/dedl/protocol/openid-connect/token",
              audience |-> "hda-public",
              subject_issuer |-> "desp-oidc",
              client_id |-> "hda-public"]]]

\* A lookup that falls back to a default descriptor instead of raising.
get_service_info_default(reg, service_name) ==
    IF service_name \notin DOMAIN reg
    THEN Return([scope |-> "openid", defaults |-> EmptyDict],
                <<"get_service_info">>, <<>>)
    ELSE Return(reg[service_name], <<"get_service_info">>, <<>>)

\* ServiceRegistry.get_service_info
get_service_info(reg, service_name) ==
    IF service_name \notin DOMAIN reg
    THEN Raise("ValueError", <<"Unknown service: ", service_name>>,
               <<"get_service_info">>, <<>>)
    ELSE Return(reg[service_name], <<"get_service_info">>, <<>>)

\* ServiceRegistry.list_services
list_services(reg) == DOMAIN reg

(*************************** configs.py ***********************************)
\* BaseConfig with the class defaults of its fields.
BaseConfig ==
    [user |-> None, password |-> None,
     iam_url |-> "https://auth.destine.eu", iam_realm |-> "desp",
     iam_client |-> None, iam_redirect_uri |-> None,
     scope |-> "openid", exchange_config |-> NoneObj]

\* BaseExchangeConfig with the class defaults of its fields.
BaseExchangeConfig ==
    [token_url |-> None, audience |-> None,
     subject_issuer |-> None, client_id |-> None]

\* Conflator("despauth", BaseConfig).load(): the class defaults overridden
\* by whatever the environment and the command line set.
ConflatorLoad ==
    { [BaseConfig EXCEPT !.user = u, !.iam_client = c, !.iam_redirect_uri = r] :
        u \in {"env-user"},
        c \in {None, "env-client"},
        r \in {None, "https://env.example/"} }


(*************************** hooks.py *************************************)
TOKEN_EXCHANGE_GRANT_TYPE == "urn:ietf:params:oauth:grant-type:token-exchange"

\* Default of token_exchange's subject_token_type parameter.
DefaultSubjectTokenType == "urn:ietf:params:oauth:token-type:access_token"

\* Default of token_exchange's timeout parameter; also what the hook passes.
DefaultTimeout == 10

\* response.text[:200]
ErrorBodyLimit == 200

\* Longest raw body the endpoint sends in the model.
MaxBodyLen == 201

\* A raw body of n characters.
RawText(n) == [i \in 1..n |-> IF i % 3 = 0 THEN "x" ELSE IF i % 3 = 1 THEN "y" ELSE "z"]

BodyLens == {0, ErrorBodyLimit, MaxBodyLen}

\* What the endpoint can put in a JSON object body.
AccessTokenValues == {None, "", "exchanged-token"}

JsonObjects ==
    { [kind |-> "object", fields |-> a @@ d @@ e] :
        a \in {EmptyDict} \cup {[access_token |-> v] : v \in AccessTokenValues},
        d \in {EmptyDict, [error_description |-> <<"Token", " ", "expired">>]},
        e \in {EmptyDict, [error |-> <<"invalid_grant">>]} }

\* A body: its raw text and what response.json() makes of it (an object,
\* another JSON value, or a decode failure).  token_exchange reads the text
\* only when the body is not a JSON object.
Bodies ==
    { [json |-> j, text |-> <<"{", "}">>] : j \in JsonObjects }
    \cup { [json |-> [kind |-> "array"], text |-> <<"[">> \o RawText(n) \o <<"]">>] : n \in {MaxBodyLen} }
    \cup { [json |-> [kind |-> "invalid"], text |-> RawText(n)] : n \in BodyLens }

Statuses == {200, 201, 400}

\* requests.post raised instead of answering (timeout, connection refused).
NetworkFailure == [status |-> 0, failure |-> "RequestException"]

Responses ==
    { [status |-> s, json |-> b.json, text |-> b.text] : s \in Statuses, b \in Bodies }
    \cup {NetworkFailure}

\* A client that posts again after a failed exchange.
requests_post_retry(token_url, data, timeout, response) ==
    LET req == [url |-> token_url, data |-> data, timeout |-> timeout]
    IN  IF response = NetworkFailure \/ response.status # 200
        THEN <<req, req>>
        ELSE <<req>>

\* requests.post(token_url, data=data, timeout=timeout): the requests sent.
requests_post(token_url, data, timeout, response) ==
    <<[url |-> token_url, data |-> data, timeout |-> timeout]>>

\* An error text that prefers the error code to its description and keeps
\* the whole raw body.
exchange_error_msg_swapped(response) ==
    IF response.json.kind # "object"
    THEN response.text
    ELSE dict_get(response.json.fields, "error",
                  dict_get(response.json.fields, "error_description", <<"Unknown">>))

\* The try/except that computes error_msg for a non-200 response.
exchange_error_msg(response) ==
    IF response.json.kind = "invalid"
    THEN Slice(response.text, ErrorBodyLimit)        \* response.json() raised
    ELSE IF response.json.kind # "object"
    THEN Slice(response.text, ErrorBodyLimit)        \* .get raised AttributeError
    ELSE dict_get(response.json.fields, "error_description",
                  dict_get(response.json.fields, "error", <<"Unknown">>))

\* token_exchange(token_url=, subject_token=, client_id=, audience=,
\*                subject_issuer=, subject_token_type=, timeout=)
token_exchange(token_url, subject_token, client_id, audience, subject_issuer, subject_token_type, timeout, response) ==
    LET data == [grant_type |-> TOKEN_EXCHANGE_GRANT_TYPE,
                 subject_token |-> subject_token,
                 subject_issuer |-> subject_issuer,
                 subject_token_type |-> subject_token_type,
                 client_id |-> client_id,
                 audience |-> audience]
        posts == requests_post(token_url, data, timeout, response)
        trace == <<"token_exchange">>
    IN  IF response = NetworkFailure
        THEN Raise(response.failure, <<>>, trace, posts)
        ELSE IF response.status # 200
        THEN Raise("AuthenticationError",
                   <<"Exchange failed: ">> \o exchange_error_msg(response),
                   trace, posts)
        ELSE IF response.json.kind = "invalid"
        THEN Raise("JSONDecodeError", <<>>, trace, posts)
        ELSE IF response.json.kind # "object"
        THEN Raise("AttributeError", <<>>, trace, posts)
        ELSE LET exchanged_token == dict_get(response.json.fields, "access_token", None)
             IN  IF exchanged_token = None \/ exchanged_token = ""
                 THEN Raise("AuthenticationError",
                            <<"No access token in exchange response">>, trace, posts)
                 ELSE Return(exchanged_token, trace, posts)

(*************************** services.py: load_config *********************)
\* Defaults that overwrite whatever was loaded.
apply_defaults_overwrite(config, defaults) ==
    [k \in DOMAIN config \cup DOMAIN defaults |->
        IF k \in DOMAIN defaults THEN defaults[k] ELSE config[k]]

\* The loop over defaults.items(): getattr(config, key, None) is None
\* decides whether setattr(config, key, default_value) runs.
apply_defaults(config, defaults) ==
    [k \in DOMAIN config \cup DOMAIN defaults |->
        IF k \in DOMAIN defaults
        THEN IF dict_get(config, k, None) = None THEN defaults[k] ELSE config[k]
        ELSE config[k]]

\* A hook that reads the exchange parameters from the config it is given.
_exchange_hook_from_cfg(closure, access_token, cfg, response) ==
    LET x == IF cfg.exchange_config = NoneObj THEN closure ELSE cfg.exchange_config
    IN  token_exchange(x.token_url, access_token, x.client_id, x.audience,
                       x.subject_issuer, DefaultSubjectTokenType,
                       DefaultTimeout, response)

\* load_config's inner _exchange_hook(access_token, cfg); `closure` holds
\* the variables of the enclosing load_config call that it captured.
_exchange_hook(closure, access_token, cfg, response) ==
    token_exchange(closure.token_url, access_token, closure.client_id,
                   closure.audience, closure.subject_issuer,
                   DefaultSubjectTokenType, DefaultTimeout, response)

\* ConfigurationFactory.load_config; `loaded` is what Conflator's load()
\* yields.  `config` is the config object at the end of the call, returned
\* or not.  The local `hook` is bound only inside the `if`, so the return
\* statement raises UnboundLocalError when exchange_cfg is None.
load_config(reg, service_name, loaded) ==
    LET info == get_service_info(reg, service_name)
    IN  IF info.raised # NoError
        THEN [info EXCEPT !.value = NoneObj] @@ [config |-> NoneObj]
        ELSE
        LET service_info == info.value
            scope == service_info.scope
            defaults == dict_get(service_info, "defaults", EmptyDict)
            exchange_cfg == dict_get(service_info, "token_exchange", NoneObj)
            config == apply_defaults(loaded, defaults)
            trace == info.trace \o <<"Conflator.load", "apply_defaults">>
        IN  IF exchange_cfg # NoneObj
            THEN LET hook == [token_url |-> exchange_cfg.token_url,
                              audience |-> exchange_cfg.audience,
                              subject_issuer |-> exchange_cfg.subject_issuer,
                              client_id |-> dict_get(exchange_cfg, "client_id", None)]
                 IN  Return([config |-> config, scope |-> scope, hook |-> hook],
                            trace, <<>>) @@ [config |-> config]
            ELSE Raise("UnboundLocalError", <<"hook">>, trace, <<>>)
                 @@ [config |-> config]


(*************************** authentication.py ****************************)
\* AuthenticationService(config=, scope=, post_auth_hook=)
AuthenticationService(config, scope, post_auth_hook) ==
    [config |-> config, scope |-> scope, post_auth_hook |-> post_auth_hook]

\* POST {iam_url}/realms/{iam_realm}/protocol/openid-connect/token
IamGrantPost(auth, step) ==
    [url |-> <<auth.config.iam_url, "/realms/", auth.config.iam_realm,
               "/protocol/openid-connect/token">>,
     step |-> step]

\* What the IAM server does with a login: how it answers the grant request
\* (a token, an OTP challenge, a rejection), whether it accepts the OTP,
\* and how the exchange endpoint answers.
IamAnswers ==
    [grant : {"token", "challenge", "rejected"},
     otp_accepted : BOOLEAN,
     response : Responses]

IamAccessToken == "iam-access-token"

\* TokenReceived -> [ExchangeRequested -> ExchangeComplete] -> [Persisted] -> Done
engine_finish(auth, write_netrc, iam, trace, posts) ==
    LET hooked == auth.post_auth_hook # NoneObj
        x == _exchange_hook(auth.post_auth_hook, IamAccessToken, auth.config, iam.response)
    IN  IF hooked /\ x.raised # NoError
        THEN Raise(x.raised, x.msg, trace \o <<"post_auth_hook">> \o x.trace, posts \o x.posts)
        ELSE Return([access_token |-> IF hooked THEN x.value ELSE IamAccessToken,
                     exchanged |-> hooked],
                    trace \o (IF hooked THEN <<"post_auth_hook">> \o x.trace ELSE <<>>)
                          \o (IF write_netrc THEN <<"write_netrc">> ELSE <<>>),
                    posts \o (IF hooked THEN x.posts ELSE <<>>))

\* AuthenticationService.login(write_netrc=)
login(auth, write_netrc, iam) ==
    LET posts == <<IamGrantPost(auth, "grant")>>
        out == IF iam.grant = "token"
               THEN engine_finish(auth, write_netrc, iam, <<"login">>, posts)
               ELSE Raise("AuthenticationError", <<"Login failed">>, <<"login">>, posts)
    IN  out @@ [calls |-> <<[op |-> "login", write_netrc |-> write_netrc]>>]

\* AuthenticationService.login_2fa(write_netrc=, otp=)
login_2fa(auth, write_netrc, otp, iam) ==
    LET first == <<IamGrantPost(auth, "grant")>>
        second == first \o <<IamGrantPost(auth, "otp")>>
        trace == IF otp = None THEN <<"login_2fa", "prompt_otp">> ELSE <<"login_2fa">>
        out == CASE iam.grant = "token" ->
                      engine_finish(auth, write_netrc, iam, <<"login_2fa">>, first)
                 [] iam.grant = "challenge" /\ iam.otp_accepted ->
                      engine_finish(auth, write_netrc, iam, trace, second)
                 [] iam.grant = "challenge" /\ ~iam.otp_accepted ->
                      Raise("AuthenticationError", <<"OTP rejected">>, trace, second)
                 [] OTHER ->
                      Raise("AuthenticationError", <<"Login failed">>, <<"login_2fa">>, first)
    IN  out @@ [calls |-> <<[op |-> "login_2fa", write_netrc |-> write_netrc, otp |-> otp]>>]

(*************************** api.py ***************************************)
\* A dispatch that ignores twofa.
get_token_login_always(auth, write_netrc, twofa, otp, iam) ==
    login(auth, write_netrc, iam)

\* result = login_2fa(...) if twofa else login(...)
get_token_login(auth, write_netrc, twofa, otp, iam) ==
    IF twofa
    THEN login_2fa(auth, write_netrc, otp, iam)
    ELSE login(auth, write_netrc, iam)

\* A return that hands the result back whatever write_netrc is.
get_token_return_always(write_netrc, result) == result

\* if not write_netrc: return result   (falling off the end returns None)
get_token_return(write_netrc, result) ==
    IF ~write_netrc THEN result ELSE NoneObj

\* get_token(service, write_netrc, verbose, twofa, otp)
get_token(reg, service, write_netrc, verbose, twofa, otp, loaded, iam) ==
    LET log_level == IF ~verbose THEN "INFO" ELSE "DEBUG"
        lc == load_config(reg, service, loaded)
        notrun == [calls |-> <<>>, result |-> NoneObj, log_level |-> log_level]
    IN  IF lc.raised # NoError
        THEN [lc EXCEPT !.trace = <<"setLevel">> \o @] @@ notrun
        ELSE
        LET auth == AuthenticationService(lc.value.config, lc.value.scope, lc.value.hook)
            r == get_token_login(auth, write_netrc, twofa, otp, iam)
            trace == <<"setLevel">> \o lc.trace \o <<"AuthenticationService">> \o r.trace
        IN  IF r.raised # NoError
            THEN [r EXCEPT !.trace = trace] @@ [config |-> lc.config] @@ notrun
            ELSE [r EXCEPT !.trace = trace,
                           !.value = get_token_return(write_netrc, r.value)]
                 @@ [config |-> lc.config, result |-> r.value, log_level |-> log_level]

(*************************** the caller ***********************************)
ServiceNames == DOMAIN _REGISTRY \cup {"unknown-service", "Highway"}

AccessTokens == {"access-token-A", "access-token-B"}

\* Configs a caller may pass to a hook: the defaults, and one that carries
\* an exchange configuration of its own.
HookConfigs ==
    {BaseConfig,
     [BaseConfig EXCEPT !.exchange_config =
         [token_url |-> "https://other.example/token", audience |-> "other-audience",
          subject_issuer |-> "other-issuer", client_id |-> "other-client"]]}

\* Arguments of a direct token_exchange call.
ExchangeArgs ==
    [token_url : {"https://other.example/token"},
     subject_token : AccessTokens,
     client_id : {"other-client"},
     audience : {"other-audience"},
     subject_issuer : {"other-issuer"},
     subject_token_type : {DefaultSubjectTokenType},
     timeout : {DefaultTimeout, 30}]

Idle == [op |-> "none", args |-> NoneObj, out |-> Return(NoneObj, <<>>, <<>>)]

Init ==
    /\ registry = _REGISTRY
    /\ hooks = <<>>
    /\ last = Idle

GetServiceInfo ==
    /\ last.op = "none"
    /\ \E name \in ServiceNames :
        /\ last' = [op |-> "get_service_info", args |-> [service |-> name],
                    out |-> get_service_info(registry, name)]
        /\ UNCHANGED <<registry, hooks>>

ListServices ==
    /\ last.op = "none"
    /\ last' = [op |-> "list_services", args |-> NoneObj,
                out |-> Return(list_services(registry), <<"list_services">>, <<>>)]
    /\ UNCHANGED <<registry, hooks>>

\* The caller keeps the hooks that load_config returned, in the order it
\* got them, one per service.
Holds(held, name) == \E i \in DOMAIN held : held[i].service = name

LoadConfig ==
    /\ last.op = "none"
    /\ \E name \in ServiceNames, loaded \in ConflatorLoad :
        LET out == load_config(registry, name, loaded)
        IN  /\ last' = [op |-> "load_config",
                        args |-> [service |-> name, loaded |-> loaded],
                        out |-> out]
            /\ hooks' = IF out.raised = NoError /\ ~Holds(hooks, name)
                        THEN Append(hooks, [service |-> name, hook |-> out.value.hook])
                        ELSE hooks
            /\ UNCHANGED registry

\* The caller invokes a hook it holds.
CallHook ==
    /\ last.op = "none"
    /\ \E i \in DOMAIN hooks, tok \in AccessTokens, cfg \in HookConfigs, resp \in Responses :
        /\ last' = [op |-> "hook",
                    args |-> [held |-> i, service |-> hooks[i].service,
                              access_token |-> tok, cfg |-> cfg, response |-> resp],
                    out |-> _exchange_hook(hooks[i].hook, tok, cfg, resp)]
        /\ UNCHANGED <<registry, hooks>>

TokenExchange ==
    /\ last.op = "none"
    /\ \E a \in ExchangeArgs, resp \in Responses :
        /\ last' = [op |-> "token_exchange",
                    args |-> a @@ [response |-> resp],
                    out |-> token_exchange(a.token_url, a.subject_token, a.client_id,
                                           a.audience, a.subject_issuer,
                                           a.subject_token_type, a.timeout, resp)]
        /\ UNCHANGED <<registry, hooks>>

GetToken ==
    /\ last.op = "none"
    /\ \E name \in ServiceNames, write_netrc \in BOOLEAN, verbose \in BOOLEAN,
       twofa \in BOOLEAN, otp \in {None, "123456"},
       loaded \in ConflatorLoad, iam \in IamAnswers :
        /\ last' = [op |-> "get_token",
                    args |-> [service |-> name, write_netrc |-> write_netrc,
                              verbose |-> verbose, twofa |-> twofa, otp |-> otp,
                              loaded |-> loaded],
                    out |-> get_token(registry, name, write_netrc, verbose,
                                      twofa, otp, loaded, iam)]
        /\ UNCHANGED <<registry, hooks>>

\* The caller has looked at the outcome and goes on to its next call.
Continue ==
    /\ last.op # "none"
    /\ last' = Idle
    /\ UNCHANGED <<registry, hooks>>

Next ==
    \/ GetServiceInfo
    \/ ListServices
    \/ LoadConfig
    \/ CallHook
    \/ TokenExchange
    \/ GetToken
    \/ Continue

Spec == Init /\ [][Next]_vars


(*************************** properties ***********************************)
Registered(name) == name \in DOMAIN registry

HasExchange(name) == "token_exchange" \in DOMAIN registry[name]

Count(seq, x) == Cardinality({i \in DOMAIN seq : seq[i] = x})

\* Every x in seq comes before every y in seq.
Before(seq, x, y) ==
    \A i, j \in DOMAIN seq : (seq[i] = x /\ seq[j] = y) => i < j

\* The token-exchange POSTs among the requests of a call.
ExchangePosts(posts) == SelectSeq(posts, LAMBDA p : "data" \in DOMAIN p)

Answered == last.op \in {"token_exchange", "hook"} /\ last.args.response # NetworkFailure

\* C1: for every registered service name load_config completes without
\* error and returns the registry's scope for that name, with a config whose
\* defaulted fields hold the registry's defaults or the loaded values.
C1_RegisteredLoadCompletes ==
    (last.op = "load_config" /\ Registered(last.args.service)) =>
        /\ last.out.raised = NoError
        /\ last.out.value.scope = registry[last.args.service].scope
        /\ \A k \in DOMAIN registry[last.args.service].defaults :
              last.out.value.config[k] \in
                  {registry[last.args.service].defaults[k], last.args.loaded[k]}

\* C2: load_config returns a hook exactly when the registry entry has a
\* token_exchange section; without one it returns None as the hook and
\* get_token returns the original access token, with one it returns the
\* exchanged token.
C2_HookIffExchangeSection ==
    /\ (last.op = "load_config" /\ Registered(last.args.service)) =>
          /\ last.out.raised = NoError
          /\ (last.out.value.hook # NoneObj) <=> HasExchange(last.args.service)
    /\ (last.op = "get_token" /\ Registered(last.args.service)
            /\ ~HasExchange(last.args.service)) =>
          /\ last.out.raised \in {NoError, "AuthenticationError"}
          /\ "post_auth_hook" \notin {last.out.trace[i] : i \in DOMAIN last.out.trace}
          /\ last.out.raised = NoError => last.out.result.access_token = IamAccessToken
    /\ (last.op = "hook" /\ last.out.raised = NoError) =>
          last.out.value = last.args.response.json.fields.access_token

\* C3: for a service name that is not registered, get_service_info,
\* load_config and get_token raise the configuration error (ValueError),
\* never an authentication error, return no descriptor, and have by then
\* loaded no configuration, created no AuthenticationService, called no
\* login operation and sent no HTTP request.
C3_UnknownServiceRaisesFirst ==
    (last.op \in {"get_service_info", "load_config", "get_token"}
        /\ ~Registered(last.args.service)) =>
        /\ last.out.raised = "ValueError"
        /\ last.out.raised # "AuthenticationError"
        /\ last.out.value = NoneObj
        /\ \A i \in DOMAIN last.out.trace :
              last.out.trace[i] \notin {"Conflator.load", "apply_defaults",
                                        "AuthenticationService", "login", "login_2fa",
                                        "post_auth_hook", "token_exchange"}
        /\ last.out.posts = <<>>

C3_Witness ==
    /\ last.op = "get_token"
    /\ last.args.service = "unknown-service"
    /\ last.out.raised = "ValueError"
    /\ last.out.trace = <<"setLevel", "get_service_info">>

\* C4: token_exchange returns a token exactly when the endpoint answers 200
\* with an access_token field in its JSON body, and returns that field; for
\* every other response it raises AuthenticationError.
C4_TokenIffOkElseAuthenticationError ==
    Answered =>
        LET r == last.args.response
            ok == /\ r.status = 200
                  /\ r.json.kind = "object"
                  /\ "access_token" \in DOMAIN r.json.fields
        IN  IF ok
            THEN /\ last.out.raised = NoError
                 /\ last.out.value = r.json.fields.access_token
            ELSE last.out.raised = "AuthenticationError"

\* C5: when get_token returns, it returns None if write_netrc is true and
\* otherwise the very result the engine's login or login_2fa produced.
C5_ReturnsResultUnlessWriteNetrc ==
    (last.op = "get_token" /\ last.out.raised = NoError) =>
        /\ last.out.result # NoneObj
        /\ IF last.args.write_netrc
           THEN last.out.value = NoneObj
           ELSE last.out.value = last.out.result

C5_Witness ==
    /\ last.op = "get_token"
    /\ last.out.raised = NoError
    /\ last.args.write_netrc
    /\ last.out.value = NoneObj
    /\ last.out.result.access_token = "exchanged-token"

\* C6: on a status other than 200 the AuthenticationError message is
\* "Exchange failed: " followed by the error_description of a JSON object
\* body that has one, else by its error field if it has one, and for a body
\* that is not parseable JSON by the first 200 characters of the raw body;
\* HTTP 400 with {"error": "invalid_grant"} gives a message containing
\* invalid_grant.
C6_ExchangeFailureMessage ==
    (Answered /\ last.args.response.status # 200) =>
        LET r == last.args.response
            msg == last.out.msg
            detail == SubSeq(msg, 2, Len(msg))
        IN  /\ last.out.raised = "AuthenticationError"
            /\ Len(msg) >= 1 /\ msg[1] = "Exchange failed: "
            /\ (r.json.kind = "object" /\ "error_description" \in DOMAIN r.json.fields)
                  => detail = r.json.fields.error_description
            /\ (r.json.kind = "object" /\ "error_description" \notin DOMAIN r.json.fields
                    /\ "error" \in DOMAIN r.json.fields)
                  => detail = r.json.fields.error
            /\ r.json.kind = "invalid"
                  => /\ Len(detail) = Min(Len(r.text), ErrorBodyLimit)
                     /\ \A i \in 1..Len(detail) : detail[i] = r.text[i]
            /\ (r.status = 400 /\ r.json.kind = "object"
                    /\ r.json.fields = [error |-> <<"invalid_grant">>])
                  => \E i \in DOMAIN msg : msg[i] = "invalid_grant"

C6_Witness ==
    /\ last.op = "token_exchange"
    /\ last.args.response.status = 400
    /\ last.args.response.json.kind = "invalid"
    /\ Len(last.args.response.text) > ErrorBodyLimit
    /\ last.out.raised = "AuthenticationError"
    /\ Len(last.out.msg) = ErrorBodyLimit + 1

\* C7: a hook built by load_config for a service sends an RFC 8693 request
\* whose subject_token is the access token it is called with and whose token
\* URL, audience, subject issuer and client id are those of that service's
\* registry entry, whatever config it is passed and whatever load_config
\* calls came after the one that built it.
C7_HookSendsRegistryParameters ==
    /\ last.op = "hook" =>
          LET x == registry[last.args.service].token_exchange
          IN  /\ last.out.posts =
                    <<[url |-> x.token_url,
                       data |-> [grant_type |-> "urn:ietf:params:oauth:grant-type:token-exchange",
                                 subject_token |-> last.args.access_token,
                                 subject_issuer |-> x.subject_issuer,
                                 subject_token_type |-> "urn:ietf:params:oauth:token-type:access_token",
                                 client_id |-> x.client_id,
                                 audience |-> x.audience],
                       timeout |-> 10]>>
              /\ last.args.service = "highway" =>
                    /\ last.out.posts[1].url = "https://highway.esa.int/sso/auth/realms/highway/protocol/openid-connect/token"
                    /\ last.out.posts[1].data.audience = "highway-public"
                    /\ last.out.posts[1].data.subject_issuer = "DESP_IAM_PROD"
    /\ last.op = "get_token" =>
          \A i \in DOMAIN ExchangePosts(last.out.posts) :
              LET p == ExchangePosts(last.out.posts)[i]
                  x == registry[last.args.service].token_exchange
              IN  /\ p.url = x.token_url
                  /\ p.data.subject_token = IamAccessToken
                  /\ p.data.audience = x.audience
                  /\ p.data.subject_issuer = x.subject_issuer
                  /\ p.data.client_id = x.client_id

\* The highway hook, obtained before the hda hook, is called with a config
\* that carries other exchange parameters.
C7_Witness ==
    /\ last.op = "hook"
    /\ last.args.service = "highway"
    /\ last.args.held = 1
    /\ Len(hooks) = 2
    /\ hooks[2].service = "hda"
    /\ last.args.cfg.exchange_config # NoneObj
    /\ last.out.posts[1].data.audience = "highway-public"

\* C8: every token_exchange call and every hook invocation issues exactly
\* one POST, with the timeout it was given (10 in the hook), whether it
\* succeeds or fails; a get_token call sends at most one exchange request.
C8_ExactlyOnePost ==
    /\ last.op \in {"token_exchange", "hook"} =>
          /\ Len(last.out.posts) = 1
          /\ last.out.posts[1].timeout =
                IF last.op = "hook" THEN 10 ELSE last.args.timeout
    /\ last.op = "get_token" =>
          /\ Len(ExchangePosts(last.out.posts)) = Count(last.out.trace, "post_auth_hook")
          /\ Len(ExchangePosts(last.out.posts)) <= 1

C8_Witness ==
    /\ last.op = "hook"
    /\ last.args.response.status = 400
    /\ last.out.raised = "AuthenticationError"
    /\ Len(last.out.posts) = 1
    /\ last.out.posts[1].timeout = 10

\* C9: after the defaults loop of load_config every field loaded with a
\* value keeps it, every field loaded as None that has a registry default
\* holds that default, every other field is unchanged, and the registry is
\* what it was.
C9_DefaultsOnlyWhenUnset ==
    (last.op = "load_config" /\ Registered(last.args.service)) =>
        LET loaded == last.args.loaded
            defaults == registry[last.args.service].defaults
            config == last.out.config
        IN  /\ DOMAIN config = DOMAIN loaded
            /\ \A k \in DOMAIN loaded :
                  IF k \in DOMAIN defaults
                  THEN IF loaded[k] = None
                       THEN config[k] = defaults[k]
                       ELSE config[k] = loaded[k]
                  ELSE config[k] = loaded[k]
            /\ last.out.raised = NoError => last.out.value.config = config
            /\ registry = _REGISTRY

C9_Witness ==
    /\ last.op = "load_config"
    /\ last.args.service = "highway"
    /\ last.out.raised = NoError
    /\ last.args.loaded.iam_client = "env-client"
    /\ last.args.loaded.iam_redirect_uri = None
    /\ last.out.value.config.iam_client = "env-client"
    /\ last.out.value.config.iam_redirect_uri =
          "https://highway.esa.int/sso/auth/realms/highway/broker/DESP_IAM_PROD/endpoint"

\* C10: a get_token call that returns has called exactly one engine entry
\* operation, once, after the configuration was loaded: login_2fa with
\* write_netrc and otp when twofa is true, login with write_netrc alone
\* otherwise.
C10_OneEngineEntryCall ==
    (last.op = "get_token" /\ last.out.raised = NoError) =>
        /\ last.out.calls =
              IF last.args.twofa
              THEN <<[op |-> "login_2fa", write_netrc |-> last.args.write_netrc,
                      otp |-> last.args.otp]>>
              ELSE <<[op |-> "login", write_netrc |-> last.args.write_netrc]>>
        /\ Count(last.out.trace, "login") + Count(last.out.trace, "login_2fa") = 1
        /\ Count(last.out.trace, "Conflator.load") = 1
        /\ Before(last.out.trace, "Conflator.load", "login")
        /\ Before(last.out.trace, "Conflator.load", "login_2fa")

C10_Witness ==
    /\ last.op = "get_token"
    /\ last.out.raised = NoError
    /\ last.args.twofa
    /\ last.args.otp = "123456"
    /\ last.out.calls[1].op = "login_2fa"
    /\ last.out.calls[1].otp = "123456"

=============================================================================
